---- MODULE Spec2Model ----
(***************************************************************************)
(* A model of i3-revive: the restore orchestration (restore_workspaces,    *)
(* restore_metadata, restore_processes) and the capture of the process     *)
(* list (save_processes) with its window-to-command mapping resolution.    *)
(***************************************************************************)
EXTENDS Integers, Sequences, FiniteSets, TLC

VARIABLES
    op,            \* the operation that was invoked: "none" before any
    pc,            \* where the operation is
    pathExists,    \* does the path the operation checks first exist
    windows,       \* restore: Vec<Window> from get_all_windows (id, is_placeholder)
    xstate,        \* restore: X11 state of each window id
    focused,       \* name of the workspace i3 reports focused, or None
    prevFocused,   \* name of the workspace that was focused at capture, or None
    entries,       \* file names of the layouts directory in fs::read_dir order
    idx,           \* position of the loop in entries / visible / saved
    phase,         \* restore_workspaces: "ws" before the switch, "append" after
    first_entry,   \* first_entry (i3_tree.rs) / first_ws (metadata.rs)
    log,           \* every X11 request and i3 command issued, in order
    result,        \* what do_things() returned: "pending", "Ok", or the error:
                   \* "MessageError" (run_command) or "IoError" (the directory)
    visible,       \* metadata.json: visible_workspaces
    saved,         \* processes.json: Vec<Process>
    spawned,       \* processes spawned by restore_processes, in order
    cwins,         \* capture: Vec<Window> (id, name, class, is_placeholder)
    mappings,      \* capture: config.window_command_mappings
    once_mappings, \* capture: HashSet of the `once` mapping indexes consumed
    processes,     \* capture: the records collected by the filter_map so far
    sel,           \* capture: per window, the mapping index selected (0: none)
    pids,          \* capture: per window, what get_pid answered
    persisted,     \* capture: the content written to processes.json, if any
    config,        \* Config: window_swallow_criteria, terminal_revive_commands,
                   \* terminal_allow_revive_processes
    tree,          \* convert_to_layout: the node of get_tree it is given
    layout,        \* convert_to_layout: the node as it leaves it
    stream,        \* i3 socket: the bytes i3 answers with
    reply,         \* i3 socket: what send_receive_i3_message returned
    term,          \* terminal: what /proc answers for the terminal's shell
    termcmd,       \* terminal: what get_terminal_process_cmd returned
    args,          \* main: the arguments after the program name
    host,          \* main: what the steps of main meet (config file, i3, disk)
    ran,           \* main: the steps main has taken, in order
    exit_code,     \* main: the exit code of the process, once it has exited
    cmdline,       \* get_process_cmd: the content of /proc/pid/cmdline
    execs,         \* get_process_cmd: the paths that are executable files
    proc_cmd       \* get_process_cmd: what it returned

vars == <<op, pc, pathExists, windows, xstate, focused, prevFocused, entries,
          idx, phase, first_entry, log, result, visible, saved, spawned,
          cwins, mappings, once_mappings, processes, sel, pids, persisted,
          config, tree, layout, stream, reply, term, termcmd,
          args, host, ran, exit_code, cmdline, execs, proc_cmd>>

restoreVars == <<windows, xstate, focused, prevFocused, entries, idx, phase,
                 first_entry, log, result, visible, saved, spawned>>
captureVars == <<cwins, mappings, once_mappings, processes, sel, pids,
                 persisted>>
unitVars == <<config, tree, layout, stream, reply, term, termcmd>>
cliVars == <<args, host, ran, exit_code>>
cmdVars == <<cmdline, execs, proc_cmd>>

\* ------------------------------------------------------------------ bounds
MaxWindows == 2
MaxSaved == 2
MaxCaptured == 2
MaxMappings == 2
MaxRules == 3
MaxChildren == 1
MaxArgs == 2

\* ------------------------------------------------------------------ values
None == "none"

WsNames == {"1", "2"}

\* Names a file of the layouts directory can have: the fragments written by
\* save_workspaces and a file that is none.
Files == {"ws_1.json", "ws_2.json", "notes.txt"}

\* Sequences without repetition over S, of length at most n.
RECURSIVE DistinctSeqs(_, _)
DistinctSeqs(S, n) ==
    IF n = 0 \/ S = {} THEN {<<>>}
    ELSE {<<>>} \cup
         UNION {{<<x>> \o t : t \in DistinctSeqs(S \ {x}, n - 1)} : x \in S}

\* Sequences over S of length at most n.
SeqsUpTo(S, n) == UNION {[1..k -> S] : k \in 0..n}

Last(s) == s[Len(s)]

\* ws_name_re = ^ws_(.+).json$ : the capture group of a matching file name.
Captures(file) ==
    CASE file = "ws_1.json" -> "1"
      [] file = "ws_2.json" -> "2"
      [] OTHER -> None

\* ------------------------------------------------------------------ the log
XReq(kind, id) == [kind |-> kind, win |-> id, ws |-> "", file |-> "", res |-> ""]
Cmd(kind, name, file, res) ==
    [kind |-> kind, win |-> 0, ws |-> name, file |-> file, res |-> res]

IsCmd(e) == e.kind \in {"workspace", "append_layout"}

\* What run_command can come back with: every outcome successful, an outcome
\* with success=false, or a MessageError of the transport.
Results == {"ok", "fail", "err"}

\* ------------------------------------------------------------------ inputs
\* A Window of the restore: ids are the positions in the flattened list.
WindowLists ==
    UNION {{[i \in 1..k |-> [id |-> i, is_placeholder |-> b[i]]] :
              b \in [1..k -> BOOLEAN]} : k \in 0..MaxWindows}

\* fs::read_dir yields the files of the directory once each, in an order the
\* file system chooses.
Listings == DistinctSeqs(Files, Cardinality(Files))

\* visible_workspaces of metadata.json: names written by save_metadata.
VisibleLists == DistinctSeqs(WsNames, Cardinality(WsNames))

\* struct Process { command, working_directory }
ProcPool ==
    {[command |-> c, working_directory |-> "/home"] :
        c \in {<<>>, <<"firefox">>, <<"kitty", "-e">>}}

\* processes.json before save_processes has written it
NoPersisted == [written |-> FALSE, list |-> <<>>]

\* The Config load_config returns when there is no config.json: every
\* collection is empty. Maps are functions on the keys they hold.
NoEntries == [key \in {} |-> None]
DefaultConfig ==
    [window_swallow_criteria |-> NoEntries,
     terminal_revive_commands |-> NoEntries,
     terminal_allow_revive_processes |-> {}]

\* ------------------------------------------------------------------ Init
Init ==
    /\ op = "none"
    /\ pc = "idle"
    /\ pathExists = FALSE
    /\ windows = <<>>
    /\ xstate = <<>>
    /\ focused = None
    /\ prevFocused = None
    /\ entries = <<>>
    /\ idx = 0
    /\ phase = "ws"
    /\ first_entry = TRUE
    /\ log = <<>>
    /\ result = "pending"
    /\ visible = <<>>
    /\ saved = <<>>
    /\ spawned = <<>>
    /\ cwins = <<>>
    /\ mappings = <<>>
    /\ once_mappings = {}
    /\ processes = <<>>
    /\ sel = <<>>
    /\ pids = <<>>
    /\ persisted = NoPersisted
    /\ config = DefaultConfig
    /\ tree = None
    /\ layout = None
    /\ stream = None
    /\ reply = None
    /\ term = None
    /\ termcmd = None
    /\ args = <<>>
    /\ host = None
    /\ ran = <<>>
    /\ exit_code = 0
    /\ cmdline = None
    /\ execs = {}
    /\ proc_cmd = <<>>

\* ------------------------------------------------------- restore_workspaces
\* Mutant: the existence check is not made before the session is touched.
LayoutsMissing_Unchecked(exists) == FALSE

\* if !dir.exists() { eprintln!(..); std::process::exit(1); }
LayoutsMissing(exists) == ~exists

\* The operation starts on a live session (ws, f), a layouts directory (es)
\* that exists or not, and after a capture at which p was focused.
RestoreWorkspacesStart ==
    /\ op = "none"
    /\ \E e \in BOOLEAN, ws \in WindowLists, es \in Listings,
          f \in WsNames \cup {None}, p \in WsNames \cup {None} :
         /\ op' = "restore_workspaces"
         /\ pathExists' = e
         /\ windows' = ws
         /\ xstate' = [i \in 1..Len(ws) |-> "mapped"]
         /\ focused' = f
         /\ prevFocused' = p
         /\ entries' = IF e THEN es ELSE <<>>
         /\ pc' = IF LayoutsMissing(e) THEN "exit1" ELSE "suspend"
    /\ UNCHANGED <<idx, phase, first_entry, log, result, visible, saved, spawned>>
    /\ UNCHANGED <<captureVars, unitVars>>
    /\ UNCHANGED <<cliVars, cmdVars>>

\* Suspend: KillClient for a placeholder, UnmapWindow for any other window.
SuspendReq(w) ==
    IF w.is_placeholder THEN XReq("kill", w.id) ELSE XReq("unmap", w.id)

SuspendState(w) == IF w.is_placeholder THEN "destroyed" ELSE "unmapped"

Suspend ==
    /\ op = "restore_workspaces" /\ pc = "suspend"
    /\ log' = log \o [i \in 1..Len(windows) |-> SuspendReq(windows[i])]
    /\ xstate' = [i \in 1..Len(windows) |-> SuspendState(windows[i])]
    /\ pc' = "replay"
    /\ idx' = 1
    /\ phase' = "ws"
    /\ first_entry' = TRUE
    /\ UNCHANGED <<op, pathExists, windows, focused, prevFocused, entries,
                   result, visible, saved, spawned>>
    /\ UNCHANGED <<captureVars, unitVars>>
    /\ UNCHANGED <<cliVars, cmdVars>>

\* Mutant: the file of the previously-focused workspace is moved last.
ReplayOrder_FocusedLast(es, prev) ==
    LET IsPrev(f) == Captures(f) = prev
        NotPrev(f) == Captures(f) # prev
    IN  SelectSeq(es, NotPrev) \o SelectSeq(es, IsPrev)

\* The order in which do_things walks the directory: fs::read_dir(dir) as is.
ReplayOrder(es, prev) == es

\* Mutant: the switch is skipped for the focused workspace wherever it comes.
NeedsSwitch_NotOnlyFirst(first, foc, ws_name) ==
    foc = None \/ foc # ws_name

\* !first_entry || focused_workspace_name.is_none_or(|name| name != ws_name)
NeedsSwitch(first, foc, ws_name) ==
    ~first \/ foc = None \/ foc # ws_name

\* Mutant: an outcome with success=false is turned into an error too.
Propagates_Outcomes(res) == res \in {"err", "fail"}

\* run_command(..)? : only a MessageError leaves do_things; the outcomes of a
\* reply that arrived are not looked at.
Propagates(res) == res = "err"

InReplay == op = "restore_workspaces" /\ pc = "replay"
CurFile == ReplayOrder(entries, prevFocused)[idx]

\* fs::read_dir(dir)?, entry?, the file name conversions: an Err ends do_things.
ReplayIoError ==
    /\ InReplay /\ phase = "ws"
    /\ idx = 1 \/ idx <= Len(entries)
    /\ result' = "IoError"
    /\ pc' = "resume"
    /\ UNCHANGED <<op, pathExists, windows, xstate, focused, prevFocused, entries,
                   idx, phase, first_entry, log, visible, saved, spawned>>
    /\ UNCHANGED <<captureVars, unitVars>>
    /\ UNCHANGED <<cliVars, cmdVars>>

\* A file whose name ws_name_re does not capture is passed over.
ReplaySkipFile ==
    /\ InReplay /\ phase = "ws" /\ idx <= Len(entries)
    /\ Captures(CurFile) = None
    /\ idx' = idx + 1
    /\ UNCHANGED <<op, pc, pathExists, windows, xstate, focused, prevFocused,
                   entries, phase, first_entry, log, result, visible, saved, spawned>>
    /\ UNCHANGED <<captureVars, unitVars>>
    /\ UNCHANGED <<cliVars, cmdVars>>

\* run_command(stream, "workspace <ws_name>")?
ReplayWorkspace ==
    /\ InReplay /\ phase = "ws" /\ idx <= Len(entries)
    /\ Captures(CurFile) # None
    /\ NeedsSwitch(first_entry, focused, Captures(CurFile))
    /\ \E r \in Results :
         /\ log' = Append(log, Cmd("workspace", Captures(CurFile), CurFile, r))
         /\ IF Propagates(r)
              THEN result' = "MessageError" /\ pc' = "resume" /\ phase' = phase
              ELSE result' = result /\ pc' = pc /\ phase' = "append"
    /\ UNCHANGED <<op, pathExists, windows, xstate, focused, prevFocused, entries,
                   idx, first_entry, visible, saved, spawned>>
    /\ UNCHANGED <<captureVars, unitVars>>
    /\ UNCHANGED <<cliVars, cmdVars>>

\* The very first fragment on the focused workspace: no switch.
ReplayNoSwitch ==
    /\ InReplay /\ phase = "ws" /\ idx <= Len(entries)
    /\ Captures(CurFile) # None
    /\ ~NeedsSwitch(first_entry, focused, Captures(CurFile))
    /\ phase' = "append"
    /\ UNCHANGED <<op, pc, pathExists, windows, xstate, focused, prevFocused,
                   entries, idx, first_entry, log, result, visible, saved, spawned>>
    /\ UNCHANGED <<captureVars, unitVars>>
    /\ UNCHANGED <<cliVars, cmdVars>>

\* run_command(stream, "append_layout <path>")?; first_entry = false;
ReplayAppend ==
    /\ InReplay /\ phase = "append"
    /\ \E r \in Results :
         /\ log' = Append(log, Cmd("append_layout", Captures(CurFile), CurFile, r))
         /\ IF Propagates(r)
              THEN /\ result' = "MessageError" /\ pc' = "resume"
                   /\ UNCHANGED <<idx, phase, first_entry>>
              ELSE /\ result' = result /\ pc' = pc
                   /\ idx' = idx + 1 /\ phase' = "ws" /\ first_entry' = FALSE
    /\ UNCHANGED <<op, pathExists, windows, xstate, focused, prevFocused, entries,
                   visible, saved, spawned>>
    /\ UNCHANGED <<captureVars, unitVars>>
    /\ UNCHANGED <<cliVars, cmdVars>>

\* The directory is exhausted: Ok(())
ReplayEnd ==
    /\ InReplay /\ phase = "ws" /\ idx > Len(entries)
    /\ result' = "Ok"
    /\ pc' = "resume"
    /\ UNCHANGED <<op, pathExists, windows, xstate, focused, prevFocused, entries,
                   idx, phase, first_entry, log, visible, saved, spawned>>
    /\ UNCHANGED <<captureVars, unitVars>>
    /\ UNCHANGED <<cliVars, cmdVars>>

\* let has_err = if let Err(err) = do_things() { ..; false } else { true };
IsErr(res) == res \in {"MessageError", "IoError"}

HasErr(res) == IF IsErr(res) THEN FALSE ELSE TRUE

\* Mutant: the windows are remapped only when do_things returned Ok.
Remapped_OnlyOnSuccess(w) == ~w.is_placeholder /\ result = "Ok"

\* if !window.is_placeholder { MapWindow }
Remapped(w) == ~w.is_placeholder

MapReq(w) == XReq("map", w.id)

\* Resume, then if has_err { std::process::exit(1) }
Resume ==
    /\ op = "restore_workspaces" /\ pc = "resume"
    /\ LET live == SelectSeq(windows, Remapped) IN
         /\ log' = log \o [i \in 1..Len(live) |-> MapReq(live[i])]
         /\ xstate' = [i \in 1..Len(windows) |->
                          IF Remapped(windows[i]) THEN "mapped" ELSE xstate[i]]
    /\ pc' = IF HasErr(result) THEN "exit1" ELSE "returned"
    /\ UNCHANGED <<op, pathExists, windows, focused, prevFocused, entries, idx,
                   phase, first_entry, result, visible, saved, spawned>>
    /\ UNCHANGED <<captureVars, unitVars>>
    /\ UNCHANGED <<cliVars, cmdVars>>

\* --------------------------------------------------------- restore_metadata
\* if !path.exists() { eprintln!(..); std::process::exit(1); }
MetadataMissing(exists) == ~exists

RestoreMetadataStart ==
    /\ op = "none"
    /\ \E e \in BOOLEAN, vs \in VisibleLists, f \in WsNames \cup {None} :
         /\ op' = "restore_metadata"
         /\ pathExists' = e
         /\ focused' = f
         /\ visible' = IF e THEN vs ELSE <<>>
         /\ pc' = IF MetadataMissing(e) THEN "exit1" ELSE "meta"
    /\ idx' = 1
    /\ first_entry' = TRUE
    /\ UNCHANGED <<windows, xstate, prevFocused, entries, phase, log, result,
                   saved, spawned>>
    /\ UNCHANGED <<captureVars, unitVars>>
    /\ UNCHANGED <<cliVars, cmdVars>>

\* !first_ws || focused_workspace_name.is_none_or(|name| name != ws_name)
NeedsSwitchMeta(first, foc, ws_name) ==
    ~first \/ foc = None \/ foc # ws_name

\* One turn of `for ws in restoring_workspaces`: run_command(..).unwrap()
\* panics on a MessageError.
MetadataSwitch ==
    /\ op = "restore_metadata" /\ pc = "meta" /\ idx <= Len(visible)
    /\ IF NeedsSwitchMeta(first_entry, focused, visible[idx])
         THEN \E r \in Results :
                /\ log' = Append(log, Cmd("workspace", visible[idx], "", r))
                /\ pc' = IF r = "err" THEN "panic" ELSE pc
         ELSE UNCHANGED <<log, pc>>
    /\ first_entry' = FALSE
    /\ idx' = idx + 1
    /\ UNCHANGED <<op, pathExists, windows, xstate, focused, prevFocused, entries,
                   phase, result, visible, saved, spawned>>
    /\ UNCHANGED <<captureVars, unitVars>>
    /\ UNCHANGED <<cliVars, cmdVars>>

MetadataEnd ==
    /\ op = "restore_metadata" /\ pc = "meta" /\ idx > Len(visible)
    /\ pc' = "returned"
    /\ UNCHANGED <<op, pathExists>>
    /\ UNCHANGED restoreVars
    /\ UNCHANGED <<captureVars, unitVars>>
    /\ UNCHANGED <<cliVars, cmdVars>>

\* -------------------------------------------------------- restore_processes
\* if !file_path.exists() { eprintln!(..); std::process::exit(1); }
ProcessesMissing(exists) == ~exists

RestoreProcessesStart ==
    /\ op = "none"
    /\ \E e \in BOOLEAN, ps \in SeqsUpTo(ProcPool, MaxSaved) :
         /\ op' = "restore_processes"
         /\ pathExists' = e
         /\ saved' = IF e THEN ps ELSE <<>>
         /\ pc' = IF ProcessesMissing(e) THEN "exit1" ELSE "spawn"
    /\ idx' = 1
    /\ UNCHANGED <<windows, xstate, focused, prevFocused, entries, phase,
                   first_entry, log, result, visible, spawned>>
    /\ UNCHANGED <<captureVars, unitVars>>
    /\ UNCHANGED <<cliVars, cmdVars>>

\* if let Some((program, args)) = process.command.split_first()
Spawnable(process) == process.command # <<>>

\* One turn of `for process in processes`: .spawn().expect(..) panics when the
\* program cannot be started.
SpawnNext ==
    /\ op = "restore_processes" /\ pc = "spawn" /\ idx <= Len(saved)
    /\ IF Spawnable(saved[idx])
         THEN \E started \in BOOLEAN :
                IF started
                  THEN spawned' = Append(spawned, saved[idx]) /\ pc' = pc
                  ELSE spawned' = spawned /\ pc' = "panic"
         ELSE UNCHANGED <<spawned, pc>>
    /\ idx' = idx + 1
    /\ UNCHANGED <<op, pathExists, windows, xstate, focused, prevFocused, entries,
                   phase, first_entry, log, result, visible, saved>>
    /\ UNCHANGED <<captureVars, unitVars>>
    /\ UNCHANGED <<cliVars, cmdVars>>

SpawnEnd ==
    /\ op = "restore_processes" /\ pc = "spawn" /\ idx > Len(saved)
    /\ pc' = "returned"
    /\ UNCHANGED <<op, pathExists>>
    /\ UNCHANGED restoreVars
    /\ UNCHANGED <<captureVars, unitVars>>
    /\ UNCHANGED <<cliVars, cmdVars>>

\* ---------------------------------------------------------- save_processes
\* Option<Vec<String>>
NoCommand == [some |-> FALSE, argv |-> <<>>]
SomeCommand(argv) == [some |-> TRUE, argv |-> argv]

\* Regex::new(pattern).is_match(text) over the titles and classes of the
\* model: ".*" matches every text, any other pattern is the text it matches.
IsMatch(pattern, text) == pattern = ".*" \/ pattern = text

\* Option<bool>::is_some_and(|b| b)
IsTrue(flag) == flag = "true"

\* One turn of `for (i, mapping) in ..enumerate()` up to `if score > best_score`:
\* FALSE when a declared pattern fails (`continue`).
FullyMatches(mapping, w) ==
    /\ mapping.title # None => IsMatch(mapping.title, w.name)
    /\ mapping.class # None => (w.class # None /\ IsMatch(mapping.class, w.class))

\* score += 2 for the title pattern, score += 1 for the class pattern
Score(mapping) ==
    (IF mapping.title # None THEN 2 ELSE 0) + (IF mapping.class # None THEN 1 ELSE 0)

\* Mutant: a later mapping of the same score replaces the earlier one.
Better_OrEqual(score, best_score) == score >= best_score

\* if score > best_score
Better(score, best_score) == score > best_score

\* The loop over config.window_command_mappings from position i on, with the
\* best score and the index matched so far (0: None; indexes count from 1).
RECURSIVE SelectFrom(_, _, _, _, _)
SelectFrom(ms, w, i, best_score, matched_mapping_idx) ==
    IF i > Len(ms) THEN matched_mapping_idx
    ELSE IF FullyMatches(ms[i], w) /\ Better(Score(ms[i]), best_score)
           THEN SelectFrom(ms, w, i + 1, Score(ms[i]), i)
           ELSE SelectFrom(ms, w, i + 1, best_score, matched_mapping_idx)

\* Mutant: a mapping of score 0 beats the score the loop starts with.
MatchedMapping_FromBelowZero(ms, w) == SelectFrom(ms, w, 1, -1, 0)

\* let mut best_score = 0; matched_mapping = None;
MatchedMapping(ms, w) == SelectFrom(ms, w, 1, 0, 0)

\* Mutant: a `once` mapping is never taken as consumed.
AfterMatch_OnceNotKept(mapping, i, once) ==
    [drop |-> IsTrue(mapping.ignored), once |-> once]

\* Mutant: `once` is looked at, and consumed, before `ignored`.
AfterMatch_OnceBeforeIgnored(mapping, i, once) ==
    IF IsTrue(mapping.once) /\ i \in once THEN [drop |-> TRUE, once |-> once]
    ELSE [drop |-> IsTrue(mapping.ignored),
          once |-> IF IsTrue(mapping.once) THEN once \cup {i} ELSE once]

\* if mapping.ignored.. { return None }  if mapping.once.. { if
\* once_mappings.contains(&mapping_idx) { return None } once_mappings.insert(..) }
AfterMatch(mapping, i, once) ==
    IF IsTrue(mapping.ignored) THEN [drop |-> TRUE, once |-> once]
    ELSE IF IsTrue(mapping.once)
           THEN IF i \in once THEN [drop |-> TRUE, once |-> once]
                ELSE [drop |-> FALSE, once |-> once \cup {i}]
           ELSE [drop |-> FALSE, once |-> once]

\* shlex::split of the command strings of the model: None on an unbalanced
\* quote, no word at all for an empty string.
Split(command_str) ==
    CASE command_str = "firefox" -> SomeCommand(<<"firefox">>)
      [] command_str = "" -> SomeCommand(<<>>)
      [] command_str = "'firefox" -> NoCommand
      [] OTHER -> SomeCommand(<<command_str>>)

\* get_process_cmd(pid) and get_process_cwd(pid, false) of the process that
\* owns window w, when /proc can be read.
AutoCommand(w) == <<"app", ToString(w.id)>>
AutoCwd(w) == "/home"

\* re = \{(\d+)\} : the command strings of the model that hold an index.
HasIndex(command_str) == command_str \in {"{0}", "{5}"}

\* re.replace_all(command_str, ..): {n} becomes the quoted n-th part of the
\* original command, or nothing where the command has no n-th part.
Interpolate(command_str, original_cmd_parts) ==
    CASE command_str = "{0}" ->
           IF Len(original_cmd_parts) > 0 THEN original_cmd_parts[1] ELSE ""
      [] command_str = "{5}" ->
           IF Len(original_cmd_parts) > 5 THEN original_cmd_parts[6] ELSE ""
      [] OTHER -> command_str

\* if let Some(command_str) = &mapping.command { interpolated_command = ..;
\* command = split(interpolated_command.as_deref().unwrap_or(command_str)) }
MappedCommand(mapping, w, env) ==
    IF mapping.command = None THEN NoCommand
    ELSE IF HasIndex(mapping.command) /\ env.cmdline
           THEN Split(Interpolate(mapping.command, AutoCommand(w)))
           ELSE Split(mapping.command)

\* What the OS answers for one window: _NET_WM_PID is set, /proc/pid/cmdline
\* and /proc/pid/cwd can be read.
Envs == [pid : BOOLEAN, cmdline : BOOLEAN, cwd : BOOLEAN]

\* return None: the window yields no record. pid tells what get_pid did:
\* "ok", "none" (Err: the window has no _NET_WM_PID), "unread" (not called).
Dropped(once, matched, pid) ==
    [kind |-> "none", process |-> <<>>, once |-> once, matched |-> matched,
     pid |-> pid]

\* Some(Process { command: command.unwrap_or_else(..),
\*                working_directory: working_directory.unwrap_or_else(..) })
\* the fallbacks unwrap(): a panic where /proc cannot be read.
Build(w, env, command, working_directory, once, matched) ==
    IF (~command.some /\ ~env.cmdline) \/ (working_directory = None /\ ~env.cwd)
      THEN [kind |-> "panic", process |-> <<>>, once |-> once, matched |-> matched,
            pid |-> "ok"]
      ELSE [kind |-> "some",
            process |->
              [window |-> w.id,
               command |-> IF command.some THEN command.argv ELSE AutoCommand(w),
               working_directory |->
                 IF working_directory # None THEN working_directory ELSE AutoCwd(w)],
            once |-> once, matched |-> matched, pid |-> "ok"]

\* The closure of the filter_map, for one window (the windows of the model
\* are of no terminal class).
Closure(w, env, once) ==
    IF w.is_placeholder THEN Dropped(once, 0, "unread")
    ELSE IF ~env.pid THEN Dropped(once, 0, "none")
    ELSE LET i == MatchedMapping(mappings, w) IN
         IF i = 0 THEN Build(w, env, NoCommand, None, once, 0)
         ELSE LET after == AfterMatch(mappings[i], i, once) IN
              IF after.drop THEN Dropped(after.once, i, "ok")
              ELSE Build(w, env, MappedCommand(mappings[i], w, env),
                         mappings[i].working_directory, after.once, i)

\* Windows of a capture: titles t1, t2; class c1 or none; a placeholder.
WinShapes ==
    {[name |-> n, class |-> c, is_placeholder |-> FALSE] :
        n \in {"t1", "t2"}, c \in {"c1", None}}
    \cup {[name |-> "t1", class |-> "c1", is_placeholder |-> TRUE]}

CaptureLists ==
    UNION {{[i \in 1..k |-> [id |-> i, name |-> sh[i].name, class |-> sh[i].class,
                              is_placeholder |-> sh[i].is_placeholder]] :
              sh \in [1..k -> WinShapes]} : k \in 0..MaxCaptured}

\* WindowCommandMapping values of a capture: a mapping on the class replaces
\* the command and the working directory, a mapping on the title the working
\* directory alone; either may be flagged once, ignored, or both.
MappingPool ==
    {[title |-> None, class |-> "c1", command |-> "firefox",
      working_directory |-> "/work", once |-> o, ignored |-> g] :
        o \in {None, "true"}, g \in {None, "true"}}
    \cup
    {[title |-> "t1", class |-> None, command |-> None,
      working_directory |-> "/work", once |-> o, ignored |-> g] :
        o \in {None, "true"}, g \in {None, "true"}}

SaveProcessesStart ==
    /\ op = "none"
    /\ \E ws \in CaptureLists, ms \in SeqsUpTo(MappingPool, MaxMappings) :
         /\ cwins' = ws
         /\ mappings' = ms
    /\ op' = "save_processes"
    /\ pc' = "capture"
    /\ idx' = 1
    /\ once_mappings' = {}
    /\ processes' = <<>>
    /\ sel' = <<>>
    /\ pids' = <<>>
    /\ UNCHANGED <<pathExists, persisted>>
    /\ UNCHANGED unitVars
    /\ UNCHANGED <<windows, xstate, focused, prevFocused, entries, phase,
                   first_entry, log, result, visible, saved, spawned>>
    /\ UNCHANGED <<cliVars, cmdVars>>

\* Mutant: the record of a window is put before those collected so far.
Collected_Reversed(collected, out) ==
    IF out.kind = "some" THEN <<out.process>> \o collected ELSE collected

\* filter_map(..).collect(): the Some(Process) of a window goes after those of
\* the windows before it, a None leaves nothing.
Collected(collected, out) ==
    IF out.kind = "some" THEN Append(collected, out.process) ELSE collected

\* One call of the closure by filter_map.
CaptureWindow ==
    /\ op = "save_processes" /\ pc = "capture" /\ idx <= Len(cwins)
    /\ \E env \in Envs :
         LET out == Closure(cwins[idx], env, once_mappings) IN
           /\ processes' = Collected(processes, out)
           /\ once_mappings' = out.once
           /\ sel' = Append(sel, out.matched)
           /\ pids' = Append(pids, out.pid)
           /\ pc' = IF out.kind = "panic" THEN "panic" ELSE pc
    /\ idx' = idx + 1
    /\ UNCHANGED <<op, pathExists, cwins, mappings, persisted>>
    /\ UNCHANGED unitVars
    /\ UNCHANGED <<windows, xstate, focused, prevFocused, entries, phase,
                   first_entry, log, result, visible, saved, spawned>>
    /\ UNCHANGED <<cliVars, cmdVars>>

\* collect(), then fs::write(processes.json)
WriteProcesses ==
    /\ op = "save_processes" /\ pc = "capture" /\ idx > Len(cwins)
    /\ persisted' = [written |-> TRUE, list |-> processes]
    /\ pc' = "returned"
    /\ UNCHANGED <<op, pathExists, cwins, mappings, once_mappings, processes,
                   sel, pids>>
    /\ UNCHANGED <<restoreVars, unitVars>>
    /\ UNCHANGED <<cliVars, cmdVars>>

NextCapture == SaveProcessesStart \/ CaptureWindow \/ WriteProcesses

SpecCapture == Init /\ [][NextCapture]_vars

\* ------------------------------------------ the capture: command templates
\* Mappings on the class that differ in their command template: a plain
\* command, an empty one, an unbalanced quote, an index the original command
\* has ({0}) and one it has not ({5}).
TemplatePool ==
    {[title |-> None, class |-> "c1", command |-> c, working_directory |-> d,
      once |-> None, ignored |-> None] :
        c \in {"firefox", "", "'firefox", "{0}", "{5}"}, d \in {None, "/work"}}

TemplateLists ==
    UNION {{[i \in 1..k |-> [id |-> i, name |-> "t1", class |-> "c1",
                              is_placeholder |-> FALSE]]} : k \in 1..MaxCaptured}

SaveProcessesTemplatesStart ==
    /\ op = "none"
    /\ \E ws \in TemplateLists, ms \in SeqsUpTo(TemplatePool, MaxMappings) :
         /\ cwins' = ws
         /\ mappings' = ms
    /\ op' = "save_processes"
    /\ pc' = "capture"
    /\ idx' = 1
    /\ once_mappings' = {}
    /\ processes' = <<>>
    /\ sel' = <<>>
    /\ pids' = <<>>
    /\ UNCHANGED <<pathExists, persisted>>
    /\ UNCHANGED unitVars
    /\ UNCHANGED <<windows, xstate, focused, prevFocused, entries, phase,
                   first_entry, log, result, visible, saved, spawned>>
    /\ UNCHANGED <<cliVars, cmdVars>>

NextTemplates == SaveProcessesTemplatesStart \/ CaptureWindow \/ WriteProcesses

SpecTemplates == Init /\ [][NextTemplates]_vars

\* --------------------------------------------------------- convert_to_layout
\* A JSON object is a function on the keys it holds.
Has(obj, key) == key \in DOMAIN obj
Insert(obj, key, val) ==
    [k \in DOMAIN obj \cup {key} |-> IF k = key THEN val ELSE obj[k]]

ALLOWED_KEYS ==
    {"type", "fullscreen_mode", "layout", "border", "current_border_width",
     "floating", "percent", "nodes", "floating_nodes", "name", "geometry",
     "window_properties", "marks", "rect"}

\* The value of current_border_width that i3 reports for "not set".
DefaultBorderWidth == -1

\* Mutant: a container with floating children alone counts as a leaf.
IsLeafNode_NodesOnly(val) ==
    /\ val.type = "con"
    /\ (~Has(val, "nodes") \/ Len(val.nodes) = 0)

\* type == "con" && nodes.is_none_or(empty) && floating_nodes.is_none_or(empty)
IsLeafNode(val) ==
    /\ val.type = "con"
    /\ (~Has(val, "nodes") \/ Len(val.nodes) = 0)
    /\ (~Has(val, "floating_nodes") \/ Len(val.floating_nodes) = 0)

\* Mutant: no rectangle counts as zero.
IsZeroRect_Never(val) == FALSE

IsZeroRect(val) == val.x = 0 /\ val.y = 0 /\ val.width = 0 /\ val.height = 0

\* regex::escape of the texts of the model.
Escape(text) ==
    CASE text = "a.b" -> "a\\.b"
      [] OTHER -> text

\* A number as format!("{}", n) writes it: its decimal digits, one by one.
RECURSIVE Decimal(_)
Decimal(n) ==
    IF n < 10 THEN <<ToString(n)>>
    ELSE Decimal(n \div 10) \o <<ToString(n % 10)>>

\* format!("^{}$", escape(text)) and format!("Terminal-Window-{}", id): a
\* pattern is the sequence of the pieces it is made of.
Anchored(text) == <<"^", Escape(text), "$">>
TerminalTitle(leaf_node_id) == <<"Terminal-Window-">> \o Decimal(leaf_node_id)

\* config.window_swallow_criteria.get(class)
Criteria(cfg, class) ==
    IF class \in DOMAIN cfg.window_swallow_criteria
      THEN [some |-> TRUE, set |-> cfg.window_swallow_criteria[class]]
      ELSE [some |-> FALSE, set |-> {}]

\* criteria.is_none_or(|crit| crit.contains(key))
IsNoneOrContains(criteria, key) == ~criteria.some \/ key \in criteria.set

\* Mutant: without a criteria set the title is a criterion as well.
IsSomeAndContains_OrNone(criteria, key) == ~criteria.some \/ key \in criteria.set

\* criteria.is_some_and(|crit| crit.contains(key))
IsSomeAndContains(criteria, key) == criteria.some /\ key \in criteria.set

\* The swallows object built from window_properties (i3_tree.rs:294-337).
Swallows(props_obj, leaf_node_id, cfg) ==
    LET criteria == IF Has(props_obj, "class")
                      THEN Criteria(cfg, props_obj.class)
                      ELSE [some |-> FALSE, set |-> {}]
        is_terminal == /\ Has(props_obj, "class")
                       /\ props_obj.class \in DOMAIN cfg.terminal_revive_commands
        s0 == NoEntries
        s1 == IF Has(props_obj, "class") /\ IsNoneOrContains(criteria, "class")
                THEN Insert(s0, "class", Anchored(props_obj.class)) ELSE s0
        s2 == IF Has(props_obj, "instance") /\ IsNoneOrContains(criteria, "instance")
                THEN Insert(s1, "instance", Anchored(props_obj.instance)) ELSE s1
    IN  IF ~Has(props_obj, "title") THEN s2
        ELSE IF IsSomeAndContains(criteria, "title")
               THEN Insert(s2, "title", Anchored(props_obj.title))
        ELSE IF is_terminal
               THEN Insert(s2, "title", TerminalTitle(leaf_node_id))
        ELSE s2

\* Mutant: the rect is dropped from every node.
KeepsRect_Never(tree_obj) == FALSE

\* Mutant: the rect is dropped from every node but a leaf.
KeepsRect_Leaf(tree_obj) == IsLeafNode(tree_obj)

\* if type != "floating_con" { remove("rect") }
KeepsRect(tree_obj) == tree_obj.type = "floating_con"

\* The keys convert_to_layout removes from a node (i3_tree.rs:232-292, 345),
\* each by a test on a key that is still there when the test is made.
RemovedKeys(tree_obj) ==
    (IF IsLeafNode(tree_obj) THEN {"layout"} ELSE {"name"})
    \cup (IF tree_obj.fullscreen_mode = 0 THEN {"fullscreen_mode"} ELSE {})
    \cup (IF IsZeroRect(tree_obj.geometry) THEN {"geometry"} ELSE {})
    \cup (IF ~KeepsRect(tree_obj) THEN {"rect"} ELSE {})
    \cup (IF tree_obj.current_border_width = DefaultBorderWidth
            THEN {"current_border_width"} ELSE {})
    \cup (IF Has(tree_obj, "nodes") /\ Len(tree_obj.nodes) = 0
            THEN {"nodes"} ELSE {})
    \cup (IF Has(tree_obj, "floating_nodes") /\ Len(tree_obj.floating_nodes) = 0
            THEN {"floating_nodes"} ELSE {})
    \cup (DOMAIN tree_obj \ ALLOWED_KEYS)
    \cup {"window_properties"}

\* The keys it inserts: swallows, on a leaf that has window_properties.
InsertedKeys(tree_obj) ==
    IF IsLeafNode(tree_obj) /\ Has(tree_obj, "window_properties")
      THEN {"swallows"} ELSE {}

\* convert_to_layout: the node without the keys removed, with swallows, and
\* with each child converted in its turn.
RECURSIVE ConvertToLayout(_, _)
ConvertToLayout(tree_obj, cfg) ==
    [k \in (DOMAIN tree_obj \ RemovedKeys(tree_obj)) \cup InsertedKeys(tree_obj) |->
        IF k = "swallows"
          THEN <<Swallows(tree_obj.window_properties, tree_obj.window, cfg)>>
        ELSE IF k \in {"nodes", "floating_nodes"}
          THEN [i \in DOMAIN tree_obj[k] |-> ConvertToLayout(tree_obj[k][i], cfg)]
        ELSE tree_obj[k]]

\* Rectangles of the model: all zero, at the origin with a size, elsewhere.
ZeroRect == [x |-> 0, y |-> 0, width |-> 0, height |-> 0]
OriginRect == [x |-> 0, y |-> 0, width |-> 300, height |-> 200]
SomeRect == [x |-> 10, y |-> 20, width |-> 300, height |-> 200]

\* The optional attributes of a node as i3 reports them: all at their default
\* values, none at its default value, all default with a zero rect, and a
\* geometry that has a size but no position.
Profiles ==
    {[fullscreen_mode |-> 0, geometry |-> ZeroRect, rect |-> SomeRect,
      current_border_width |-> DefaultBorderWidth],
     [fullscreen_mode |-> 1, geometry |-> SomeRect, rect |-> SomeRect,
      current_border_width |-> 2],
     [fullscreen_mode |-> 0, geometry |-> ZeroRect, rect |-> ZeroRect,
      current_border_width |-> DefaultBorderWidth],
     [fullscreen_mode |-> 0, geometry |-> OriginRect, rect |-> OriginRect,
      current_border_width |-> DefaultBorderWidth]}

\* The first two of them, for the nodes that hold other nodes.
ContainerProfiles == {pr \in Profiles : pr.rect = SomeRect}

\* A node of get_tree: i3 reports every attribute, both lists included, and
\* attributes a layout has no use for (id, focused).
Node(type, pr, name, nodes, floating_nodes) ==
    [id |-> 94, type |-> type, layout |-> "splith", name |-> name,
     focused |-> FALSE, fullscreen_mode |-> pr.fullscreen_mode,
     geometry |-> pr.geometry, rect |-> pr.rect,
     current_border_width |-> pr.current_border_width,
     nodes |-> nodes, floating_nodes |-> floating_nodes]

\* A window container: a node with a window id and, for a window that has
\* them, window_properties (window is null on any other node: no key here).
WindowNode(pr, id, props) ==
    LET node == Node("con", pr, "Baz", <<>>, <<>>) @@ [window |-> id] IN
    IF props.some THEN node @@ [window_properties |-> props.obj] ELSE node

AllProps == [class |-> "a.b", instance |-> "bar", title |-> "Baz"]

\* window_properties of the model: any of class, instance and title, of a
\* class "a.b" or of the terminal class "XTerm"; or no window_properties.
PropsPool ==
    {[some |-> TRUE,
      obj |-> [k \in keys |-> IF k = "class" THEN c ELSE AllProps[k]]] :
        keys \in SUBSET {"class", "instance", "title"}, c \in {"a.b", "XTerm"}}
    \cup {[some |-> FALSE, obj |-> NoEntries]}

\* Leaves of the trees that differ in shape and attributes.
Leaves == {WindowNode(pr, 1, [some |-> TRUE, obj |-> AllProps]) : pr \in Profiles}

\* Split containers of up to MaxChildren leaves, and a container whose only
\* child is a floating one.
SplitCons ==
    {Node("con", pr, "[i3 con] container", ns, <<>>) :
        pr \in ContainerProfiles, ns \in SeqsUpTo(Leaves, MaxChildren) \ {<<>>}}

FloatingCons ==
    {Node("floating_con", pr, "[i3 con] floating", ns, <<>>) :
        pr \in ContainerProfiles, ns \in SeqsUpTo(Leaves, 1)}

OddCons ==
    {Node("con", pr, "[i3 con] container", <<>>, <<fc>>) :
        pr \in ContainerProfiles,
        fc \in {f \in FloatingCons : f.nodes # <<>> /\ f.nodes[1].rect = ZeroRect}}

\* Workspaces that differ in shape and attributes.
ShapeTrees ==
    {Node("workspace", pr, "1", ns, fs) :
        pr \in ContainerProfiles,
        ns \in SeqsUpTo(Leaves \cup SplitCons \cup OddCons, MaxChildren),
        fs \in SeqsUpTo(FloatingCons, 1)}

\* Workspaces of one window, which differ in its window_properties and id.
PropsTrees ==
    {Node("workspace", pr, "1", <<WindowNode(pr, id, props)>>, <<>>) :
        pr \in {p \in Profiles : p.rect = ZeroRect},
        id \in {1, 12}, props \in PropsPool}

\* The configurations that matter to the swallows: a criteria set for none,
\* one or both of the classes, "XTerm" a terminal class or not.
CriteriaMaps ==
    UNION {[classes -> SUBSET {"class", "instance", "title"}] :
             classes \in SUBSET {"a.b", "XTerm"}}

LayoutConfigs ==
    {[window_swallow_criteria |-> cm, terminal_revive_commands |-> tc,
      terminal_allow_revive_processes |-> {}] :
        cm \in CriteriaMaps,
        tc \in {NoEntries, [class \in {"XTerm"} |-> "xterm -e {cmd}"]}}

LayoutInputs ==
    {[tree |-> t, config |-> DefaultConfig] : t \in ShapeTrees}
    \cup {[tree |-> t, config |-> cfg] : t \in PropsTrees, cfg \in LayoutConfigs}

\* save_workspaces is given a workspace of get_tree.
SaveWorkspacesStart ==
    /\ op = "none"
    /\ \E in \in LayoutInputs :
         /\ tree' = in.tree
         /\ config' = in.config
    /\ op' = "save_workspaces"
    /\ pc' = "convert"
    /\ UNCHANGED <<pathExists, layout, stream, reply, term, termcmd>>
    /\ UNCHANGED <<restoreVars, captureVars>>
    /\ UNCHANGED <<cliVars, cmdVars>>

\* convert_to_layout(ws)
ConvertWorkspace ==
    /\ op = "save_workspaces" /\ pc = "convert"
    /\ layout' = ConvertToLayout(tree, config)
    /\ pc' = "converted"
    /\ UNCHANGED <<op, pathExists, config, tree, stream, reply, term, termcmd>>
    /\ UNCHANGED <<restoreVars, captureVars>>
    /\ UNCHANGED <<cliVars, cmdVars>>

NextLayout == SaveWorkspacesStart \/ ConvertWorkspace

SpecLayout == Init /\ [][NextLayout]_vars

\* -------------------------------------------------- get_terminal_process_cmd
\* shell_cmd.rsplit_once('/'): the file name of the shells of the model.
ShellName(shell_cmd) ==
    CASE shell_cmd = "/bin/bash" -> "bash"
      [] shell_cmd = "/usr/bin/nu" -> "nu"
      [] OTHER -> shell_cmd

\* a.contains("Revive-Terminal-Window-"), for the arguments of the model
IsReviveCommand(arg) == arg = "echo Revive-Terminal-Window-7; .."

\* What get_process_cmd_parts answers: Ok(Some(parts)), Ok(None), Err, or a
\* panic of an unwrap().
Parts(kind, argv) == [kind |-> kind, argv |-> argv]

\* Mutant: an empty allow-list allows every program.
Allowed_EmptyAllowsAll(fg_process_cmd, cfg) ==
    \/ cfg.terminal_allow_revive_processes = {}
    \/ Len(fg_process_cmd) = 0
    \/ fg_process_cmd[1] \in cfg.terminal_allow_revive_processes

\* fg_process_cmd.first().map(|proc| allow.contains(proc)).unwrap_or(true)
Allowed(fg_process_cmd, cfg) ==
    IF Len(fg_process_cmd) > 0
      THEN fg_process_cmd[1] \in cfg.terminal_allow_revive_processes
      ELSE TRUE

\* The closure get_process_cmd_parts (process.rs:126-249). No terminal command
\* mapping is configured: the allowed command is returned as it is.
GetProcessCmdParts(e, cfg) ==
    LET shell_cmd_parts == e.shell.argv
        shell_name == ShellName(shell_cmd_parts[1])
        is_revived_shell == /\ Len(shell_cmd_parts) >= 3
                            /\ shell_cmd_parts[2] = "-c"
                            /\ IsReviveCommand(shell_cmd_parts[3])
        fg_process_pid == IF is_revived_shell /\ ~e.flag
                            THEN e.shell_children ELSE e.stat
    IN  IF shell_name \notin {"bash", "zsh", "fish", "sh"} THEN Parts("none", <<>>)
        ELSE IF Len(shell_cmd_parts) > 1 /\ ~is_revived_shell
               THEN Parts("none", <<>>)
        ELSE IF fg_process_pid = "err" THEN Parts("err", <<>>)
        ELSE IF fg_process_pid = "none" THEN Parts("panic", <<>>)
        ELSE IF fg_process_pid = "shell" THEN Parts("none", <<>>)
        ELSE IF ~e.fg_cmd.ok THEN Parts("none", <<>>)
        ELSE IF Allowed(e.fg_cmd.argv, cfg) THEN Parts("some", e.fg_cmd.argv)
        ELSE Parts("none", <<>>)

\* What get_terminal_process_cmd answers. The command of an Ok is kept by
\* its pieces: the template, the shell, the window id of the title
\* (Revive-Terminal-Window-{}) and of the flag file, and the command the
\* interactive shell runs first.
TerminalCmd(kind, e, window_id, terminal_command, inner) ==
    [kind |-> kind, terminal |-> terminal_command, shell |-> e.shell.argv,
     title |-> <<"Revive-", "Terminal-Window-">> \o Decimal(window_id),
     flag |-> window_id, inner |-> inner]

GetTerminalProcessCmd(e, window_id, terminal_command, cfg) ==
    IF e.children = "err" THEN TerminalCmd("err", e, window_id, terminal_command, <<>>)
    ELSE IF e.children = "none"
           THEN TerminalCmd("panic", e, window_id, terminal_command, <<>>)
    ELSE IF ~e.shell.ok THEN TerminalCmd("err", e, window_id, terminal_command, <<>>)
    ELSE LET parts == GetProcessCmdParts(e, cfg) IN
         IF parts.kind \in {"err", "panic"}
           THEN TerminalCmd(parts.kind, e, window_id, terminal_command, <<>>)
           ELSE TerminalCmd("ok", e, window_id, terminal_command,
                            IF parts.kind = "some" THEN parts.argv ELSE <<"true">>)

\* What /proc answers for a terminal: the children of the terminal, the
\* command line of its shell, whether /tmp/i3-revive/<id> exists, the children
\* and the stat of the shell, the command line of the foreground process.
Read(argv) == [ok |-> TRUE, argv |-> argv]
Unread == [ok |-> FALSE, argv |-> <<>>]

TermEnvs ==
    [children : {"err", "none", "some"},
     shell : {Unread, Read(<<"/bin/bash">>), Read(<<"/usr/bin/nu">>),
              Read(<<"/bin/bash", "-l">>),
              Read(<<"/bin/bash", "-c", "echo Revive-Terminal-Window-7; ..">>)},
     flag : BOOLEAN,
     shell_children : {"err", "none", "other"},
     stat : {"err", "shell", "other"},
     fg_cmd : {Unread, Read(<<"vim", "notes.txt">>), Read(<<"htop">>)}]

TerminalConfigs ==
    {[window_swallow_criteria |-> NoEntries,
      terminal_revive_commands |-> [class \in {"XTerm"} |-> "xterm -e {cmd}"],
      terminal_allow_revive_processes |-> allow] :
        allow \in SUBSET {"vim", "htop"}}

\* save_processes reaches get_terminal_process_cmd for a window of a terminal
\* class that no mapping gave a command.
GetTerminalProcessCmdStart ==
    /\ op = "none"
    /\ \E e \in TermEnvs, cfg \in TerminalConfigs, id \in {7, 71} :
         /\ term' = e
         /\ config' = cfg
         /\ cwins' = <<[id |-> id, name |-> "t1", class |-> "XTerm",
                        is_placeholder |-> FALSE]>>
    /\ op' = "get_terminal_process_cmd"
    /\ pc' = "reading"
    /\ UNCHANGED <<pathExists, tree, layout, stream, reply, termcmd>>
    /\ UNCHANGED <<mappings, once_mappings, processes, sel, pids, persisted>>
    /\ UNCHANGED restoreVars
    /\ UNCHANGED <<cliVars, cmdVars>>

GetTerminalProcessCmdReturn ==
    /\ op = "get_terminal_process_cmd" /\ pc = "reading"
    /\ termcmd' = GetTerminalProcessCmd(term, cwins[1].id,
                                        config.terminal_revive_commands[cwins[1].class],
                                        config)
    /\ pc' = IF termcmd'.kind = "panic" THEN "panic" ELSE "returned"
    /\ UNCHANGED <<op, pathExists, config, tree, layout, stream, reply, term>>
    /\ UNCHANGED <<restoreVars, captureVars>>
    /\ UNCHANGED <<cliVars, cmdVars>>

NextTerminal == GetTerminalProcessCmdStart \/ GetTerminalProcessCmdReturn

SpecTerminal == Init /\ [][NextTerminal]_vars

\* ------------------------------------------------------------- the i3 socket
\* What send_receive_i3_message returns: Ok(v), a MessageError (Send or
\* Receive, with the kind of the io::Error it wraps, or JsonCouldntParse), or
\* the panic of its assert_eq!. What receive_i3_message returns has the same
\* shape: kind "Ok" or "Err".
Answer(kind, io, message_type, payload) ==
    [kind |-> kind, io |-> io, message_type |-> message_type, payload |-> payload]

NoAnswer == Answer("pending", "none", 0, "")

\* Mutant: the first six bytes are not looked at.
MagicOk_Unchecked(magic_string) == TRUE

\* magic_string == "i3-ipc"
MagicOk(magic_string) == magic_string = "i3-ipc"

\* receive_i3_message: read_exact and read_u32 fail with the error of the
\* socket where the answer ends early; the magic string is compared after the
\* first six bytes were read.
ReceiveI3Message(frame) ==
    IF frame.ends = "magic" THEN Answer("Err", frame.error, 0, "")
    ELSE IF ~MagicOk(frame.magic) THEN Answer("Err", "Other", 0, "")
    ELSE IF frame.ends \in {"header", "payload"}
           THEN Answer("Err", frame.error, 0, "")
    ELSE Answer("Ok", "none", frame.message_type, frame.payload)

\* serde_json::from_str of the payloads of the model
ParsesAsJson(payload) == payload = "[{\"success\":true}]"

\* send_receive_i3_message after a send that succeeded.
SendReceiveI3Message(message_type, frame) ==
    LET received == ReceiveI3Message(frame) IN
    IF received.kind = "Err" THEN Answer("Receive", received.io, 0, "")
    ELSE IF message_type # received.message_type
           THEN Answer("panic", "none", 0, "")
    ELSE IF ParsesAsJson(received.payload)
           THEN Answer("Ok", "none", received.message_type, received.payload)
    ELSE Answer("JsonCouldntParse", "none", 0, "")

\* What i3 may answer with: six bytes that are the magic string or not, a
\* message type, a payload; the answer may end before the magic string, the
\* header or the payload is complete, with an error of the socket.
Frames ==
    [magic : {"i3-ipc", "i3-ipX", "I3-IPC"},
     message_type : {0, 4},
     payload : {"[{\"success\":true}]", "[{"},
     ends : {"magic", "header", "payload", "no"},
     error : {"UnexpectedEof", "ConnectionReset"}]

\* send_receive_i3_message(message_type, payload) on a socket whose write
\* succeeds or fails.
SendReceiveStart ==
    /\ op = "none"
    /\ \E frame \in Frames, message_type \in {0, 4}, sends \in BOOLEAN :
         stream' = [frame |-> frame, message_type |-> message_type, sends |-> sends]
    /\ op' = "send_receive_i3_message"
    /\ pc' = "send"
    /\ reply' = NoAnswer
    /\ UNCHANGED <<pathExists, config, tree, layout, term, termcmd>>
    /\ UNCHANGED <<restoreVars, captureVars>>
    /\ UNCHANGED <<cliVars, cmdVars>>

\* if let Err(e) = self.send_i3_message(..) { return Err(MessageError::Send(e)) }
SendI3Message ==
    /\ op = "send_receive_i3_message" /\ pc = "send"
    /\ IF stream.sends
         THEN pc' = "receive" /\ reply' = reply
         ELSE pc' = "returned" /\ reply' = Answer("Send", "BrokenPipe", 0, "")
    /\ UNCHANGED <<op, pathExists, config, tree, layout, stream, term, termcmd>>
    /\ UNCHANGED <<restoreVars, captureVars>>
    /\ UNCHANGED <<cliVars, cmdVars>>

ReceiveAnswer ==
    /\ op = "send_receive_i3_message" /\ pc = "receive"
    /\ reply' = SendReceiveI3Message(stream.message_type, stream.frame)
    /\ pc' = IF reply'.kind = "panic" THEN "panic" ELSE "returned"
    /\ UNCHANGED <<op, pathExists, config, tree, layout, stream, term, termcmd>>
    /\ UNCHANGED <<restoreVars, captureVars>>
    /\ UNCHANGED <<cliVars, cmdVars>>

NextIpc == SendReceiveStart \/ SendI3Message \/ ReceiveAnswer

SpecIpc == Init /\ [][NextIpc]_vars

\* ---------------------------------------------------------------------- main
\* What the steps of main meet: config.json is missing, parses or does not;
\* i3 can be connected to; get_tree succeeds; backup_and_clear_data returns
\* Ok; save_workspaces and save_processes run without a panic.
Hosts ==
    [config_file : {"missing", "valid", "invalid"}, connect : BOOLEAN,
     tree : BOOLEAN, backup : BOOLEAN, capture : BOOLEAN]

\* Arguments of the model: the three subcommands and a word that is none.
Words == {"save", "restore", "rm", "help"}

\* How a run of main ends: exit(code), the end of main (code 0), or a panic
\* (Rust exits with 101).
Ending(steps, how, code) == [ran |-> steps, pc |-> how, exit_code |-> code]

\* The "save" arm (main.rs:23-38).
SaveArm(steps, h) ==
    IF ~h.connect THEN Ending(steps \o <<"connect_i3">>, "panic", 101)
    ELSE IF ~h.tree THEN Ending(steps \o <<"connect_i3", "get_tree">>, "panic", 101)
    ELSE IF ~h.backup
           THEN Ending(steps \o <<"connect_i3", "get_tree", "backup_and_clear_data">>,
                       "exited", 1)
    ELSE IF ~h.capture
           THEN Ending(steps \o <<"connect_i3", "get_tree", "backup_and_clear_data",
                                  "save_workspaces", "save_processes">>, "panic", 101)
    ELSE Ending(steps \o <<"connect_i3", "get_tree", "backup_and_clear_data",
                           "save_workspaces", "save_processes">>, "exited", 0)

\* The "restore" arm (main.rs:39-42): a message, and exit(1).
RestoreArm(steps, h) == Ending(steps \o <<"todo">>, "exited", 1)

\* The "rm" arm (main.rs:43-49).
RmArm(steps, h) ==
    IF ~h.backup THEN Ending(steps \o <<"backup_and_clear_data">>, "exited", 1)
    ELSE Ending(steps \o <<"backup_and_clear_data">>, "exited", 0)

MainStart ==
    /\ op = "none"
    /\ \E a \in SeqsUpTo(Words, MaxArgs), h \in Hosts :
         /\ args' = a
         /\ host' = h
    /\ op' = "main"
    /\ pc' = "args"
    /\ ran' = <<>>
    /\ exit_code' = 0
    /\ UNCHANGED <<pathExists, restoreVars, captureVars, unitVars, cmdVars>>

\* if args.len() != 2 { usage; exit(1) }  (args[0] is the program name)
MainUsage ==
    /\ op = "main" /\ pc = "args" /\ Len(args) + 1 # 2
    /\ ran' = Append(ran, "usage")
    /\ exit_code' = 1
    /\ pc' = "exited"
    /\ UNCHANGED <<op, args, host>>
    /\ UNCHANGED <<pathExists, restoreVars, captureVars, unitVars, cmdVars>>

\* load_config(): serde_json::from_str(..).unwrap() panics on a config.json
\* that does not parse.
MainLoadConfig ==
    /\ op = "main" /\ pc = "args" /\ Len(args) + 1 = 2
    /\ ran' = Append(ran, "load_config")
    /\ IF host.config_file = "invalid"
         THEN pc' = "panic" /\ exit_code' = 101
         ELSE pc' = "match" /\ exit_code' = exit_code
    /\ UNCHANGED <<op, args, host>>
    /\ UNCHANGED <<pathExists, restoreVars, captureVars, unitVars, cmdVars>>

\* match command.as_str() { "save" | "restore" | "rm" => the arm }
MainArm ==
    /\ op = "main" /\ pc = "match" /\ args[1] \in {"save", "restore", "rm"}
    /\ LET end == CASE args[1] = "save" -> SaveArm(ran, host)
                    [] args[1] = "restore" -> RestoreArm(ran, host)
                    [] args[1] = "rm" -> RmArm(ran, host)
       IN  /\ ran' = end.ran
           /\ pc' = end.pc
           /\ exit_code' = end.exit_code
    /\ UNCHANGED <<op, args, host>>
    /\ UNCHANGED <<pathExists, restoreVars, captureVars, unitVars, cmdVars>>

\* _ => { usage; exit(1) }
MainUnknown ==
    /\ op = "main" /\ pc = "match" /\ args[1] \notin {"save", "restore", "rm"}
    /\ ran' = Append(ran, "usage")
    /\ exit_code' = 1
    /\ pc' = "exited"
    /\ UNCHANGED <<op, args, host>>
    /\ UNCHANGED <<pathExists, restoreVars, captureVars, unitVars, cmdVars>>

NextMain == MainStart \/ MainUsage \/ MainLoadConfig \/ MainArm \/ MainUnknown

SpecMain == Init /\ [][NextMain]_vars

\* ----------------------------------------------- get_process_cmd, on its own
\* A string is the sequence of its characters; NUL is the character '\0'.
NUL == "NUL"
Chars == {"a", "b", " ", NUL}

MaxCmdLen == 5

\* str.trim_matches(c)
RECURSIVE TrimStart(_, _)
TrimStart(str, c) ==
    IF Len(str) > 0 /\ str[1] = c THEN TrimStart(Tail(str), c) ELSE str

RECURSIVE TrimEnd(_, _)
TrimEnd(str, c) ==
    IF Len(str) > 0 /\ str[Len(str)] = c
      THEN TrimEnd(SubSeq(str, 1, Len(str) - 1), c)
      ELSE str

TrimMatches(str, c) == TrimEnd(TrimStart(str, c), c)

\* str.split(sep): the pieces between the separators, empty ones included.
RECURSIVE SplitFrom(_, _, _, _)
SplitFrom(str, sep, i, piece) ==
    IF i > Len(str) THEN <<piece>>
    ELSE IF str[i] = sep THEN <<piece>> \o SplitFrom(str, sep, i + 1, <<>>)
    ELSE SplitFrom(str, sep, i + 1, Append(piece, str[i]))

SplitOn(str, sep) == SplitFrom(str, sep, 1, <<>>)

\* path.exists() && path.is_file() && is_executable(path): fs is the set of
\* the paths that name an executable regular file.
IsExecutable(path, fs) == path \in fs

\* The loop over parts_iter.by_ref(): executable grows by one part at a time
\* until it names an executable file; rest is what the iterator still holds.
RECURSIVE FindExecutable(_, _, _, _)
FindExecutable(toks, i, executable, fs) ==
    IF i > Len(toks) THEN [executable |-> executable, rest |-> <<>>]
    ELSE LET grown == IF executable # <<>>
                        THEN executable \o <<" ">> \o toks[i]
                        ELSE toks[i]
         IN  IF IsExecutable(grown, fs)
               THEN [executable |-> grown,
                     rest |-> SubSeq(toks, i + 1, Len(toks))]
               ELSE FindExecutable(toks, i + 1, grown, fs)

\* Mutant: the first part is the executable, whatever the file system holds.
GetProcessCmd_FirstPart(file, fs) ==
    IF ~file.ok THEN Unread
    ELSE LET cmd_parts == SplitOn(TrimMatches(file.argv, NUL), NUL) IN
         IF Len(cmd_parts) # 1 THEN Read(cmd_parts)
         ELSE Read(SplitOn(cmd_parts[1], " "))

\* get_process_cmd, of the content of /proc/<pid>/cmdline (Unread: the file
\* cannot be read).
GetProcessCmd(file, fs) ==
    IF ~file.ok THEN Unread
    ELSE LET cmd_parts == SplitOn(TrimMatches(file.argv, NUL), NUL) IN
         IF Len(cmd_parts) # 1 THEN Read(cmd_parts)
         ELSE LET found == FindExecutable(SplitOn(cmd_parts[1], " "), 1, <<>>, fs)
              IN  Read(<<found.executable>> \o found.rest)

\* The executable files there may be: names with and without a space.
ExecutablePaths ==
    {<<"a">>, <<"b">>, <<"a", " ", "b">>, <<"a", " ", " ", "b">>,
     <<"a", " ", "b", " ", "a">>}

GetProcessCmdStart ==
    /\ op = "none"
    /\ op' = "get_process_cmd"
    /\ pc' = "read"
    /\ cmdline' \in {Unread} \cup {Read(str) : str \in SeqsUpTo(Chars, MaxCmdLen)}
    /\ execs' \in SUBSET ExecutablePaths
    /\ UNCHANGED <<proc_cmd, pathExists, restoreVars, captureVars, unitVars, cliVars>>

GetProcessCmdReturn ==
    /\ op = "get_process_cmd" /\ pc = "read"
    /\ proc_cmd' = GetProcessCmd(cmdline, execs)
    /\ pc' = "done"
    /\ UNCHANGED <<op, cmdline, execs, pathExists>>
    /\ UNCHANGED <<restoreVars, captureVars, unitVars, cliVars>>

NextCmd == GetProcessCmdStart \/ GetProcessCmdReturn

SpecCmd == Init /\ [][NextCmd]_vars

\* ------------------------------------------- save: placeholders and revival
\* The properties of a terminal window.
TerminalProps ==
    [some |-> TRUE, obj |-> [class |-> "XTerm", instance |-> "bar", title |-> "Baz"]]

\* Window ids of the model: 7 is the beginning of 71 as a decimal.
TerminalIds == {7, 71, 12}

\* A workspace of two terminal windows.
TerminalTree(a, b) ==
    LET pr == CHOOSE p \in Profiles : p.rect = ZeroRect IN
    Node("workspace", pr, "1",
         <<WindowNode(pr, a, TerminalProps), WindowNode(pr, b, TerminalProps)>>, <<>>)

\* Configurations in which "XTerm" is a terminal class, with no criteria set
\* for it or with one, and with an allow-list or none.
ReviveConfigs ==
    {[window_swallow_criteria |-> cm,
      terminal_revive_commands |-> [class \in {"XTerm"} |-> "xterm -e {cmd}"],
      terminal_allow_revive_processes |-> allow] :
        cm \in {NoEntries, [class \in {"XTerm"} |-> {"class", "instance"}],
                [class \in {"XTerm"} |-> {"title"}]},
        allow \in {{}, {"vim"}}}

\* main's "save" arm for a session of two terminals: save_workspaces, then
\* save_processes.
SaveStart ==
    /\ op = "none"
    /\ \E a \in TerminalIds, b \in TerminalIds, e \in TermEnvs,
          cfg \in ReviveConfigs :
         /\ a # b
         /\ tree' = TerminalTree(a, b)
         /\ cwins' = <<[id |-> a, name |-> "Baz", class |-> "XTerm",
                        is_placeholder |-> FALSE],
                       [id |-> b, name |-> "Baz", class |-> "XTerm",
                        is_placeholder |-> FALSE]>>
         /\ term' = e
         /\ config' = cfg
    /\ op' = "save"
    /\ pc' = "save_workspaces"
    /\ termcmd' = <<>>
    /\ UNCHANGED <<pathExists, layout, stream, reply>>
    /\ UNCHANGED <<mappings, once_mappings, processes, sel, pids, persisted>>
    /\ UNCHANGED <<restoreVars, cliVars, cmdVars>>

\* save_workspaces: convert_to_layout(ws)
SaveConvert ==
    /\ op = "save" /\ pc = "save_workspaces"
    /\ layout' = ConvertToLayout(tree, config)
    /\ pc' = "save_processes"
    /\ UNCHANGED <<op, pathExists, config, tree, stream, reply, term, termcmd>>
    /\ UNCHANGED <<restoreVars, captureVars, cliVars, cmdVars>>

\* save_processes: get_terminal_process_cmd(pid, w.id, cmd).unwrap() for the
\* next terminal window.
SaveTerminal ==
    /\ op = "save" /\ pc = "save_processes" /\ Len(termcmd) < Len(cwins)
    /\ LET w == cwins[Len(termcmd) + 1]
           cmd == GetTerminalProcessCmd(term, w.id,
                                        config.terminal_revive_commands[w.class],
                                        config)
       IN  /\ termcmd' = Append(termcmd, cmd)
           /\ pc' = IF cmd.kind = "ok" THEN pc ELSE "panic"
    /\ UNCHANGED <<op, pathExists, config, tree, layout, stream, reply, term>>
    /\ UNCHANGED <<restoreVars, captureVars, cliVars, cmdVars>>

NextSave == SaveStart \/ SaveConvert \/ SaveTerminal

SpecSave == Init /\ [][NextSave]_vars

\* ------------------------------------------- mapping resolution, on its own
\* Mappings that differ in the patterns they declare.
RulePool ==
    {[title |-> t, class |-> c, command |-> None, working_directory |-> None,
      once |-> None, ignored |-> None] :
        t \in {None, "t1", ".*"}, c \in {None, "c1", ".*"}}

ResolveWindows ==
    {[id |-> 1, name |-> n, class |-> c, is_placeholder |-> FALSE] :
        n \in {"t1", "t2"}, c \in {"c1", "c2", None}}

ResolveStart ==
    /\ op = "none"
    /\ \E w \in ResolveWindows, ms \in SeqsUpTo(RulePool, MaxRules) :
         /\ cwins' = <<w>>
         /\ mappings' = ms
    /\ op' = "resolve"
    /\ pc' = "matching"
    /\ UNCHANGED <<pathExists, once_mappings, processes, sel, pids, persisted>>
    /\ UNCHANGED <<restoreVars, unitVars>>
    /\ UNCHANGED <<cliVars, cmdVars>>

\* The loop of save_processes that sets matched_mapping_idx, for one window.
Resolve ==
    /\ op = "resolve" /\ pc = "matching"
    /\ sel' = <<MatchedMapping(mappings, cwins[1])>>
    /\ pc' = "returned"
    /\ UNCHANGED <<op, pathExists, cwins, mappings, once_mappings, processes,
                   pids, persisted>>
    /\ UNCHANGED <<restoreVars, unitVars>>
    /\ UNCHANGED <<cliVars, cmdVars>>

NextSelect == ResolveStart \/ Resolve

SpecSelect == Init /\ [][NextSelect]_vars

\* ------------------------------------------------------------ specification
Next ==
    \/ RestoreWorkspacesStart
    \/ Suspend
    \/ ReplayIoError
    \/ ReplaySkipFile
    \/ ReplayWorkspace
    \/ ReplayNoSwitch
    \/ ReplayAppend
    \/ ReplayEnd
    \/ Resume
    \/ RestoreMetadataStart
    \/ MetadataSwitch
    \/ MetadataEnd
    \/ RestoreProcessesStart
    \/ SpawnNext
    \/ SpawnEnd

Spec == Init /\ [][Next]_vars

\* ------------------------------------------------- the restore: vocabulary
IsFragment(file) == Captures(file) # None

\* The fragments of the layouts directory, in directory-listing order.
Fragments == SelectSeq(entries, IsFragment)

IsAppend(e) == e.kind = "append_layout"
IsSwitch(e) == e.kind = "workspace"

\* The files append_layout was issued for, in the order of issue.
AppendedFiles ==
    LET a == SelectSeq(log, IsAppend) IN [i \in 1..Len(a) |-> a[i].file]

\* The names the `workspace` switches were issued for, in the order of issue.
SwitchedNames ==
    LET a == SelectSeq(log, IsSwitch) IN [i \in 1..Len(a) |-> a[i].ws]

IsPrefix(s, t) == Len(s) <= Len(t) /\ \A i \in 1..Len(s) : s[i] = t[i]

\* restore_workspaces got past Suspend and has ended.
RestoreEnded ==
    op = "restore_workspaces" /\ pathExists /\ pc \in {"exit1", "returned", "panic"}

\* do_things has returned.
ReplayOver ==
    op = "restore_workspaces" /\ pathExists /\ result # "pending"

C2_ExitNonZeroIffReplayFailed ==
    (RestoreEnded /\ pc # "panic") => ((pc = "exit1") <=> IsErr(result))

C4_PreviouslyFocusedReplayedLast ==
    (ReplayOver /\ result = "Ok" /\ SwitchedNames # <<>>
       /\ \E i \in DOMAIN Fragments : Captures(Fragments[i]) = prevFocused) =>
        /\ Captures(Last(AppendedFiles)) = prevFocused
        /\ Last(SwitchedNames) = prevFocused

\* C4 amended: Replay processes the fragments in directory-listing order with
\* no exception: the fragments append_layout was issued for are always a
\* prefix of the listing's fragments, and after a Replay without error they are
\* all of them, the last `workspace` switch naming the last fragment of the
\* listing whenever there is more than one.
C4_ReplayInListingOrder ==
    /\ IsPrefix(AppendedFiles, Fragments)
    /\ (ReplayOver /\ result = "Ok") =>
         /\ AppendedFiles = Fragments
         /\ Len(Fragments) > 1 =>
              /\ SwitchedNames # <<>>
              /\ Last(SwitchedNames) = Captures(Last(Fragments))

\* C4 witness: a Replay without error over a listing in which the fragment of
\* the previously-focused workspace comes first and another one last.
C4_Witness ==
    /\ ReplayOver /\ result = "Ok"
    /\ Len(Fragments) > 1
    /\ Captures(Fragments[1]) = prevFocused
    /\ Last(SwitchedNames) # prevFocused

\* ---------------------------------------------------------------------- C5
\* C5: every append_layout issued is immediately preceded by the `workspace`
\* switch to its fragment's workspace, except for the first fragment processed
\* when its workspace is the focused one: no switch is ever issued for that
\* one. With no workspace focused nothing is exempt. restore_metadata applies
\* the same rule to the saved visible workspaces.
C5_SwitchBeforeEveryAppendButFirstFocused ==
    /\ \A i \in DOMAIN log :
         IsAppend(log[i]) =>
            IF log[i].file = Fragments[1] /\ focused = Captures(log[i].file)
              THEN \A j \in DOMAIN log :
                      IsSwitch(log[j]) => log[j].file # log[i].file
              ELSE /\ i > 1
                   /\ log[i - 1].kind = "workspace"
                   /\ log[i - 1].file = log[i].file
                   /\ log[i - 1].ws = Captures(log[i].file)
    /\ (op = "restore_metadata" /\ pc = "returned") =>
         SwitchedNames = IF visible # <<>> /\ focused = visible[1]
                           THEN Tail(visible) ELSE visible

\* C5 witness: the first fragment was appended with no switch, on the focused
\* workspace, and a later fragment after its switch.
C5_Witness ==
    \E i, j \in DOMAIN log :
        /\ i < j
        /\ IsAppend(log[i]) /\ log[i].file = Fragments[1]
        /\ focused = Captures(log[i].file)
        /\ IsAppend(log[j]) /\ IsSwitch(log[j - 1])

\* ---------------------------------------------------------------------- C6
\* C6: when the snapshot the operation needs is missing (the layouts directory,
\* processes.json, metadata.json) the operation exits non-zero with the live
\* session untouched: no X11 request and no i3 command was issued, every
\* window is still mapped, and no process was spawned.
C6_MissingSnapshotExitsBeforeMutation ==
    (op \in {"restore_workspaces", "restore_metadata", "restore_processes"}
       /\ ~pathExists) =>
        /\ pc = "exit1"
        /\ log = <<>>
        /\ spawned = <<>>
        /\ \A w \in DOMAIN windows : xstate[w] = "mapped"

\* C6 witness: restore_workspaces has exited on a missing layouts directory
\* with a live window and a placeholder in the session.
C6_Witness ==
    /\ op = "restore_workspaces" /\ ~pathExists /\ pc = "exit1"
    /\ \E w, v \in DOMAIN windows :
         windows[w].is_placeholder /\ ~windows[v].is_placeholder

\* ------------------------------------------------- the capture: vocabulary
\* Window k of the capture has a record among those collected.
Produced(k) ==
    \E j \in DOMAIN processes : processes[j].window = cwins[k].id

\* The record of window k.
RecordOf(k) ==
    processes[CHOOSE j \in DOMAIN processes : processes[j].window = cwins[k].id]

\* Window k selected mapping i in its call of the closure.
Selected(k, i) == k \in DOMAIN sel /\ sel[k] = i

OnceIndexes == {i \in DOMAIN mappings : mappings[i].once = "true"}
IgnoredIndexes == {i \in DOMAIN mappings : mappings[i].ignored = "true"}

\* ---------------------------------------------------------------------- C7
\* A mapping declares a pattern; every pattern it declares matches the window;
\* 2 for a declared title pattern plus 1 for a declared class pattern.
C7_Declares(m) == m.title # None \/ m.class # None
C7_Satisfied(m, w) ==
    /\ m.title = None \/ m.title = ".*" \/ m.title = w.name
    /\ m.class = None \/ (w.class # None /\ (m.class = ".*" \/ m.class = w.class))
C7_Points(m) ==
    IF m.title # None /\ m.class # None THEN 3
    ELSE IF m.title # None THEN 2 ELSE IF m.class # None THEN 1 ELSE 0

\* C7: for a window and mappings that each declare a pattern, the mapping
\* applied is one whose every declared pattern matches, of the highest score
\* among those, and the first-declared of that score; none is applied when
\* none matches.
C7_HighestScoreFirstDeclaredWins ==
    (op = "resolve" /\ pc = "returned"
       /\ \A i \in DOMAIN mappings : C7_Declares(mappings[i])) =>
        LET w == cwins[1]
            ok == {i \in DOMAIN mappings : C7_Satisfied(mappings[i], w)}
            k == sel[1]
        IN  IF ok = {} THEN k = 0
            ELSE /\ k \in ok
                 /\ \A j \in ok :
                      /\ C7_Points(mappings[j]) <= C7_Points(mappings[k])
                      /\ C7_Points(mappings[j]) = C7_Points(mappings[k]) => k <= j

\* C7 witness: three mappings match the window, the first of a lower score
\* than the two others, which tie: the second is applied.
C7_Witness ==
    /\ op = "resolve" /\ pc = "returned"
    /\ Len(mappings) = 3
    /\ \A i \in DOMAIN mappings :
         C7_Declares(mappings[i]) /\ C7_Satisfied(mappings[i], cwins[1])
    /\ C7_Points(mappings[1]) < C7_Points(mappings[2])
    /\ C7_Points(mappings[2]) = C7_Points(mappings[3])
    /\ sel[1] = 2

\* ---------------------------------------------------------------------- C8
\* C8: within one capture, at most one record comes from a mapping flagged
\* once, and it is the record of the first window that selected the mapping:
\* no window that selected it later has a record. What is written to
\* processes.json is the list collected.
C8_OnceMappingYieldsAtMostOneRecord ==
    /\ \A i \in OnceIndexes :
         LET from == {k \in DOMAIN sel : sel[k] = i /\ Produced(k)} IN
           /\ Cardinality(from) <= 1
           /\ \A k \in from : \A e \in 1..(k - 1) : sel[e] # i
    /\ persisted.written => persisted.list = processes

\* C8 witness: two windows selected the same once mapping; the first has the
\* record made from it, the second has none.
C8_Witness ==
    /\ op = "save_processes" /\ pc = "returned"
    /\ \E i \in OnceIndexes :
         /\ Selected(1, i) /\ Selected(2, i)
         /\ Produced(1) /\ ~Produced(2)
         /\ RecordOf(1).working_directory = mappings[i].working_directory

\* ---------------------------------------------------------------------- C9
\* C9 as claimed: when two windows select the same mapping flagged once (and
\* not ignored), the second still has a process record, whose command and
\* working directory come from automatic reconstruction.
C9_SecondWindowReconstructed ==
    (op = "save_processes" /\ pc = "returned") =>
        \A i \in OnceIndexes \ IgnoredIndexes :
            \A k1, k2 \in DOMAIN sel :
                (k1 < k2 /\ sel[k1] = i /\ sel[k2] = i) =>
                    /\ Produced(k2)
                    /\ RecordOf(k2).command = AutoCommand(cwins[k2])
                    /\ RecordOf(k2).working_directory = AutoCwd(cwins[k2])

\* C9 amended: when two windows select the same mapping flagged once, the
\* second has no process record at all: neither the mapping nor automatic
\* reconstruction gives it one, and processes.json holds none for it.
C9_SecondWindowDropped ==
    \A i \in OnceIndexes :
        \A k1, k2 \in DOMAIN sel :
            (k1 < k2 /\ sel[k1] = i /\ sel[k2] = i) =>
                /\ ~Produced(k2)
                /\ \A j \in DOMAIN persisted.list :
                     persisted.list[j].window # cwins[k2].id

\* C9 witness: processes.json was written after two windows selected the same
\* once mapping, which is not ignored; it holds one record, the first window's.
C9_Witness ==
    /\ persisted.written
    /\ Len(cwins) = 2
    /\ \E i \in OnceIndexes \ IgnoredIndexes : sel = <<i, i>>
    /\ Len(persisted.list) = 1
    /\ persisted.list[1].window = cwins[1].id

\* --------------------------------------------------------------------- C10
\* C10: a call of the closure that selects a mapping with ignored = true adds
\* no record and leaves the set of consumed once mappings as it was.
C10_IgnoredAddsNothingConsumesNothing ==
    [][(/\ op = "save_processes"
        /\ Len(sel') = Len(sel) + 1
        /\ Last(sel') \in IgnoredIndexes)
         => (processes' = processes /\ once_mappings' = once_mappings)]_vars

\* C10 witness: two windows selected a mapping flagged ignored and once; no
\* record was written and no once mapping is consumed.
C10_Witness ==
    /\ op = "save_processes" /\ pc = "returned"
    /\ \E i \in IgnoredIndexes \cap OnceIndexes : sel = <<i, i>>
    /\ persisted.written /\ persisted.list = <<>>
    /\ once_mappings = {}

\* --------------------------------------------------------------------- C11
\* C11: a failure on one window (no _NET_WM_PID, /proc/pid/cmdline or
\* /proc/pid/cwd unreadable, the process gone) drops the record of that window
\* alone: save_processes never aborts, and once it has returned processes.json
\* holds the record of every window that was read and not dropped by a mapping.
C11_WindowFailureDropsOnlyItsRecord ==
    op = "save_processes" =>
        /\ pc # "panic"
        /\ pc = "returned" =>
              /\ persisted.written
              /\ \A k \in DOMAIN cwins :
                   Produced(k) =>
                       \E j \in DOMAIN persisted.list :
                           persisted.list[j].window = cwins[k].id

\* --------------------------------------------------------------------- C12
\* The window ids of a list of records, and of a list of windows.
WindowsOf(list) == [j \in DOMAIN list |-> list[j].window]
IdsOf(ws) == [k \in DOMAIN ws |-> ws[k].id]

\* Window w is neither a placeholder nor ignored by the mapping it selected.
NotIgnored(w) == ~w.is_placeholder /\ sel[w.id] \notin IgnoredIndexes

\* Window w is none of the above, its pid was read, and the mapping it
\* selected is no once mapping a window before it selected.
Recorded(w) ==
    /\ NotIgnored(w)
    /\ pids[w.id] = "ok"
    /\ ~(sel[w.id] \in OnceIndexes /\ \E k \in 1..(w.id - 1) : sel[k] = sel[w.id])

\* C12: processes.json holds exactly one record for each window that is
\* neither a placeholder nor ignored, none for any other window, in the order
\* of the flattened window list.
C12_OneRecordPerWindowNotIgnored ==
    persisted.written =>
        WindowsOf(persisted.list) = IdsOf(SelectSeq(cwins, NotIgnored))

\* C12 amended: processes.json holds exactly one record for each window that
\* is not a placeholder, whose pid was read, and whose mapping is neither
\* ignored nor a once mapping selected by an earlier window; it holds none for
\* any other window, and the records are in the order of the window list.
C12_OneRecordPerWindowKept ==
    persisted.written =>
        WindowsOf(persisted.list) = IdsOf(SelectSeq(cwins, Recorded))

\* C12 witness: processes.json holds the records of two windows, in the order
\* of the windows.
C12_Witness ==
    /\ persisted.written
    /\ Len(cwins) >= 2
    /\ Len(persisted.list) = 2
    /\ persisted.list[1].window = cwins[1].id
    /\ persisted.list[2].window = cwins[2].id

\* --------------------------------------------------------------------- C13
\* C13: every record of processes.json has a command of one word or more,
\* whatever the command template of the mapping the window selected.
C13_PersistedArgvNonEmpty ==
    persisted.written =>
        \A j \in DOMAIN persisted.list : Len(persisted.list[j].command) > 0

\* ------------------------------------------- convert_to_layout: vocabulary
\* Every node of the tree with the node that stands in its place in the
\* layout, and whether it sits under a floating container.
RECURSIVE NodePairs(_, _, _)
NodePairs(pre, post, floating) ==
    {[pre |-> pre, post |-> post, floating |-> floating]}
    \cup UNION {UNION {NodePairs(pre[k][i], post[k][i], pre.type = "floating_con") :
                         i \in DOMAIN pre[k]} :
                  k \in {"nodes", "floating_nodes"}}

Converted == op = "save_workspaces" /\ pc = "converted"

ConvertedPairs == IF Converted THEN NodePairs(tree, layout, FALSE) ELSE {}

\* A window container without children.
Childless(node) == node.nodes = <<>> /\ node.floating_nodes = <<>>
IsLeaf(node) == node.type = "con" /\ Childless(node)

\* A leaf with the window properties class, instance and title.
HasAllProps(node) ==
    /\ IsLeaf(node)
    /\ Has(node, "window_properties")
    /\ DOMAIN node.window_properties = {"class", "instance", "title"}

\* --------------------------------------------------------------------- C14
\* C14: for a leaf with class, instance and title whose class is no terminal
\* class: without a criteria set for the class the swallows hold the anchored
\* escaped class and instance and no title; with a criteria set S they hold
\* the anchored escaped match of exactly those of the three that are in S.
C14_SwallowCriteriaFollowTheClassSet ==
    \A pair \in ConvertedPairs :
        LET props == pair.pre.window_properties
            swallows == pair.post.swallows[1]
        IN  (/\ HasAllProps(pair.pre)
             /\ props.class \notin DOMAIN config.terminal_revive_commands) =>
            /\ Len(pair.post.swallows) = 1
            /\ DOMAIN swallows =
                 IF props.class \in DOMAIN config.window_swallow_criteria
                   THEN config.window_swallow_criteria[props.class]
                   ELSE {"class", "instance"}
            /\ \A k \in DOMAIN swallows : swallows[k] = <<"^", Escape(props[k]), "$">>

\* C14 witness: a leaf of class "a.b", for which the criteria set is {title},
\* was converted: its swallows hold the title match alone; the class is
\* escaped where it is a criterion of another configuration.
C14_Witness ==
    /\ Converted
    /\ \E pair \in ConvertedPairs :
         /\ HasAllProps(pair.pre)
         /\ pair.pre.window_properties.class = "a.b"
         /\ "a.b" \in DOMAIN config.window_swallow_criteria
         /\ config.window_swallow_criteria["a.b"] = {"title"}
         /\ pair.post.swallows = <<[title |-> <<"^", "Baz", "$">>]>>

\* --------------------------------------------------------------------- C15
\* C15: a node whose geometry is all zero, whose current_border_width is -1,
\* whose fullscreen_mode is 0 and whose nodes and floating_nodes are empty has
\* none of these five attributes in the layout.
C15_DefaultAttributesAbsent ==
    \A pair \in ConvertedPairs :
        (/\ pair.pre.geometry = ZeroRect
         /\ pair.pre.current_border_width = -1
         /\ pair.pre.fullscreen_mode = 0
         /\ Childless(pair.pre)) =>
            DOMAIN pair.post \cap {"geometry", "current_border_width",
                                   "fullscreen_mode", "nodes", "floating_nodes"} = {}

\* C15 witness: a workspace at its default values that holds a window at its
\* default values was converted.
C15_Witness ==
    /\ Converted
    /\ tree.geometry = ZeroRect /\ tree.current_border_width = -1
    /\ tree.fullscreen_mode = 0
    /\ Len(tree.nodes) = 1
    /\ tree.nodes[1].geometry = ZeroRect /\ tree.nodes[1].current_border_width = -1
    /\ tree.nodes[1].fullscreen_mode = 0 /\ Childless(tree.nodes[1])
    /\ ~Has(layout.nodes[1], "geometry")

\* --------------------------------------------------------------------- C16
\* C16: no leaf that sits under anything but a floating container has a rect
\* in the layout, whatever its rect in the tree.
C16_NoRectOnNonFloatingLeaf ==
    \A pair \in ConvertedPairs :
        (IsLeaf(pair.pre) /\ ~pair.floating) => ~Has(pair.post, "rect")

\* C16 witness: a leaf with a rect that is not zero, in a split container, was
\* converted.
C16_Witness ==
    /\ Converted
    /\ \E pair \in ConvertedPairs :
         /\ pair.pre.type = "con" /\ ~Childless(pair.pre)
         /\ \E i \in DOMAIN pair.pre.nodes :
              /\ IsLeaf(pair.pre.nodes[i])
              /\ pair.pre.nodes[i].rect = SomeRect
              /\ ~Has(pair.post.nodes[i], "rect")

\* --------------------------------------------------------------------- C17
\* C17: a leaf under a floating container whose rect is not zero has that
\* rect in the layout.
C17_FloatingLeafKeepsRect ==
    \A pair \in ConvertedPairs :
        (IsLeaf(pair.pre) /\ pair.floating /\ pair.pre.rect # ZeroRect) =>
            (Has(pair.post, "rect") /\ pair.post.rect = pair.pre.rect)

\* C17 amended: a leaf under a floating container has no rect in the layout,
\* whatever its rect; the floating container above it has the rect it had.
C17_FloatingContainerKeepsRectLeafDoesNot ==
    \A pair \in ConvertedPairs :
        /\ (IsLeaf(pair.pre) /\ pair.floating) => ~Has(pair.post, "rect")
        /\ pair.pre.type = "floating_con" =>
             (Has(pair.post, "rect") /\ pair.post.rect = pair.pre.rect)

\* C17 witness: a floating container that holds a leaf with a rect that is
\* not zero was converted.
C17_Witness ==
    /\ Converted
    /\ \E pair \in ConvertedPairs :
         /\ pair.pre.type = "floating_con"
         /\ Len(pair.pre.nodes) = 1
         /\ IsLeaf(pair.pre.nodes[1])
         /\ pair.pre.nodes[1].rect = SomeRect
         /\ pair.post.rect = SomeRect
         /\ ~Has(pair.post.nodes[1], "rect")

\* --------------------------------------------------------------------- C18
\* C18: is_leaf_node holds of a node if and only if it is a con whose nodes
\* and floating_nodes are both empty; what convert_to_layout does to a leaf
\* alone (it keeps the name) is done to these nodes and no other.
C18_LeafIffChildlessCon ==
    \A pair \in ConvertedPairs :
        /\ IsLeafNode(pair.pre) <=>
             (/\ pair.pre.type = "con"
              /\ pair.pre.nodes = <<>>
              /\ pair.pre.floating_nodes = <<>>)
        /\ pair.pre.type \in {"workspace", "floating_con"} => ~IsLeafNode(pair.pre)
        /\ Has(pair.post, "name") <=>
             (/\ pair.pre.type = "con"
              /\ pair.pre.nodes = <<>>
              /\ pair.pre.floating_nodes = <<>>)

\* C18 witness: a tree was converted that holds a leaf, a con whose only
\* child is a floating one, and a floating container without children.
C18_Witness ==
    /\ Converted
    /\ \E leaf, odd, fc \in ConvertedPairs :
         /\ leaf.pre.type = "con" /\ Childless(leaf.pre) /\ Has(leaf.post, "name")
         /\ odd.pre.type = "con" /\ odd.pre.nodes = <<>>
         /\ odd.pre.floating_nodes # <<>> /\ ~Has(odd.post, "name")
         /\ fc.pre.type = "floating_con" /\ Childless(fc.pre) /\ ~Has(fc.post, "name")

\* --------------------------------------------------------------------- C19
\* The answer was read past six bytes that are not the magic string.
BadMagicReceived ==
    /\ op = "send_receive_i3_message"
    /\ pc \in {"returned", "panic"}
    /\ stream.sends
    /\ stream.frame.ends # "magic"
    /\ stream.frame.magic # "i3-ipc"

ForegroundFound ==
    /\ op = "get_terminal_process_cmd" /\ pc = "returned"
    /\ termcmd.kind = "ok"
    /\ \/ term.shell.argv = <<"/bin/bash">> /\ term.stat = "other"
       \/ /\ Len(term.shell.argv) = 3
          /\ IF term.flag THEN term.stat = "other"
                          ELSE term.shell_children = "other"
    /\ term.fg_cmd.ok

\* C20: with no allow-list configured, the command of every foreground
\* program found inside a terminal is what the respawn command of the
\* terminal runs, not the no-op.
C20_EmptyAllowListAllowsEveryProgram ==
    (ForegroundFound /\ config.terminal_allow_revive_processes = {}) =>
        termcmd.inner = term.fg_cmd.argv

\* C20 amended: the command of a foreground program found inside a terminal
\* is what the respawn command runs exactly when its first word is on the
\* allow-list; otherwise, and so for every program when the allow-list is
\* empty, the respawn command runs the no-op `true`.
C20_OnlyListedProgramsAreRevived ==
    ForegroundFound =>
        termcmd.inner =
            IF term.fg_cmd.argv[1] \in config.terminal_allow_revive_processes
              THEN term.fg_cmd.argv ELSE <<"true">>

\* C20 witness: with an empty allow-list, vim was found in the foreground and
\* the respawn command runs `true`.
C20_Witness ==
    /\ ForegroundFound
    /\ config.terminal_allow_revive_processes = {}
    /\ term.fg_cmd.argv = <<"vim", "notes.txt">>
    /\ termcmd.inner = <<"true">>

\* --------------------------------------------------------------------- C21
MainEnded == op = "main" /\ pc \in {"exited", "panic"}

\* The steps main has taken, as a set.
Ran == {ran[i] : i \in DOMAIN ran}

\* The operation of a subcommand was entered: the capture, the restore
\* orchestration, the removal of the saved snapshot.
Dispatched(command) ==
    CASE command = "save" -> "connect_i3" \in Ran
      [] command = "restore" -> "restore_workspaces" \in Ran
      [] command = "rm" -> "backup_and_clear_data" \in Ran

\* A fatal step of the subcommand failed.
FatalStepFailed(command) ==
    \/ host.config_file = "invalid"
    \/ command = "save" /\ ~(host.connect /\ host.tree /\ host.backup /\ host.capture)
    \/ command = "rm" /\ ~host.backup

\* C21: with exactly one argument that is save, restore or rm, main enters
\* the operation of that subcommand and exits non-zero only when a fatal step
\* failed; with any other argument or argument count it prints the usage
\* message and exits with code 1, and saved data is not touched.
C21_SubcommandsDispatchElseUsage ==
    MainEnded =>
        IF Len(args) = 1 /\ args[1] \in {"save", "restore", "rm"}
          THEN /\ host.config_file # "invalid" => Dispatched(args[1])
               /\ exit_code # 0 => FatalStepFailed(args[1])
          ELSE /\ "usage" \in Ran
               /\ exit_code = 1
               /\ Ran \subseteq {"usage", "load_config"}

\* --------------------------------------------------------------------- C22
\* The mappings that declare no pattern, and those that declare one or more
\* and whose every pattern matches the window resolved.
Patternless == {i \in DOMAIN mappings : ~C7_Declares(mappings[i])}
DeclaredMatches ==
    {i \in DOMAIN mappings :
        C7_Declares(mappings[i]) /\ C7_Satisfied(mappings[i], cwins[1])}

Resolved == op = "resolve" /\ pc = "returned"

\* C22: where a mapping declares no pattern and no mapping that declares one
\* matches the window, a mapping without pattern is the one applied.
C22_PatternlessMappingApplied ==
    (Resolved /\ Patternless # {} /\ DeclaredMatches = {}) =>
        sel[1] \in Patternless

\* C22 amended: a mapping that declares no pattern is never the one applied;
\* a window that no pattern-declaring mapping matches has no mapping applied.
C22_PatternlessMappingNeverApplied ==
    Resolved =>
        /\ sel[1] \notin Patternless
        /\ DeclaredMatches = {} => sel[1] = 0

\* C22 witness: the first of two mappings declares no pattern, the second
\* does not match the window: none is applied.
C22_Witness ==
    /\ Resolved
    /\ Len(mappings) = 2
    /\ Patternless = {1}
    /\ DeclaredMatches = {}
    /\ sel[1] = 0

\* --------------------------------------------------------------------- C23
\* text holds pattern as a run of consecutive pieces.
Occurs(pattern, text) ==
    \E o \in 0..(Len(text) - Len(pattern)) :
        \A i \in DOMAIN pattern : text[o + i] = pattern[i]

\* A swallow criterion matches a window title as i3 matches it: a regular
\* expression found anywhere in the title, or all of it between ^ and $.
MatchesTitle(pattern, text) ==
    IF pattern[1] = "^" /\ pattern[Len(pattern)] = "$"
      THEN text = SubSeq(pattern, 2, Len(pattern) - 1)
      ELSE Occurs(pattern, text)

\* Both terminals were captured: the layout holds their placeholders and a
\* respawn command was built for each.
BothCaptured ==
    /\ op = "save" /\ pc = "save_processes"
    /\ Len(termcmd) = 2
    /\ termcmd[1].kind = "ok" /\ termcmd[2].kind = "ok"

\* C23: the title criterion of the placeholder of each terminal matches the
\* title its own respawn command emits and not the title the respawn command
\* of the other terminal emits.
C23_TitleMarkerBindsOwnPlaceholder ==
    BothCaptured =>
        \A k, j \in {1, 2} :
            LET criterion == layout.nodes[k].swallows[1].title IN
            MatchesTitle(criterion, termcmd[j].title) <=> (k = j)

\* --------------------------------------------------------------------- C24
\* The pieces joined with single spaces.
RECURSIVE Joined(_)
Joined(pieces) ==
    IF Len(pieces) = 0 THEN <<>>
    ELSE IF Len(pieces) = 1 THEN pieces[1]
    ELSE pieces[1] \o <<" ">> \o Joined(Tail(pieces))

\* The NUL-terminated strings a command line file holds.
NulParts(str) ==
    IF Len(str) > 0 /\ str[Len(str)] = NUL
      THEN SplitOn(SubSeq(str, 1, Len(str) - 1), NUL)
      ELSE SplitOn(str, NUL)

CmdReturned == op = "get_process_cmd" /\ pc = "done" /\ cmdline.ok

\* argv is text cut after a number of whole space-delimited tokens: argv[0]
\* joins the first ones, the arguments are the others in order. argv[0] is
\* the shortest such beginning that is an executable file, or all of text
\* where there is none.
CutAtExecutable(argv, text) ==
    LET toks == SplitOn(text, " ")
        k == Len(toks) - Len(argv) + 1
    IN  /\ Len(argv) >= 1 /\ k >= 1
        /\ argv[1] = Joined(SubSeq(toks, 1, k))
        /\ Tail(argv) = SubSeq(toks, k + 1, Len(toks))
        /\ \A j \in 1..(k - 1) : Joined(SubSeq(toks, 1, j)) \notin execs
        /\ argv[1] \notin execs => k = Len(toks)

\* C24 as stated: a single combined string is cut at the shortest beginning
\* of whole tokens that is an executable file and joining the answer with
\* single spaces gives the string back; a command line of several
\* NUL-separated parts is answered part for part.
C24_ExecutablePrefixAndRoundTrip ==
    CmdReturned =>
        LET cmd_parts == NulParts(cmdline.argv) IN
        IF Len(cmd_parts) > 1
          THEN proc_cmd.argv = cmd_parts
          ELSE /\ CutAtExecutable(proc_cmd.argv, cmd_parts[1])
               /\ Joined(proc_cmd.argv) = cmd_parts[1]

\* C24 amended: the NULs at both ends of the file and the spaces at the start
\* of a single combined string are dropped first. What is left of a single
\* string is cut at the shortest beginning of whole tokens that is an
\* executable file, or not at all where there is none, and joining the answer
\* gives it back; what is left of several parts is answered part for part.
C24_TrimmedExecutablePrefix ==
    CmdReturned =>
        LET text == TrimMatches(cmdline.argv, NUL) IN
        IF \E i \in DOMAIN text : text[i] = NUL
          THEN proc_cmd.argv = SplitOn(text, NUL)
          ELSE /\ CutAtExecutable(proc_cmd.argv, TrimStart(text, " "))
               /\ Joined(proc_cmd.argv) = TrimStart(text, " ")

\* A single string whose executable has a space in its name and is followed
\* by an argument, while its first token alone is no executable.
C24_Witness ==
    /\ CmdReturned
    /\ cmdline.argv = <<"a", " ", "b", " ", "a">>
    /\ execs = {<<"a", " ", "b">>, <<"b">>}
    /\ proc_cmd.argv = << <<"a", " ", "b">>, <<"a">> >>

\* --------------------------------------------------------------------- C25
\* C25: every swallows entry attached to a leaf holds at least one criterion
\* (class, instance or title), whatever the window properties and the
\* criteria configured for its class.
C25_SwallowsNeverEmpty ==
    \A pair \in ConvertedPairs :
        Has(pair.post, "swallows") =>
            \A i \in DOMAIN pair.post.swallows :
                DOMAIN pair.post.swallows[i] \cap {"class", "instance", "title"} # {}

====
